---- MODULE Spec2Model ----
(***************************************************************************)
(* The memory load gadget of libsnark (Merkle authentication path check)   *)
(* and its self-test, gadgetlib1/gadgets/delegated_ra_memory/              *)
(* memory_load_gadget.tcc.                                                 *)
(*                                                                         *)
(* The protoboard, the digest variables, the digest selector and the       *)
(* knapsack CRH are collaborators whose code is outside the two source     *)
(* files; they are modelled from their contracts (spec.md 4.1-4.3, 6).     *)
(***************************************************************************)
EXTENDS Integers, Sequences, FiniteSets, TLC

(* ---------------------------- bounds ---------------------------------- *)

\* largest tree depth explored (the self-test fixes 16)
MaxDepth == 2

\* modulus of the scalar field FieldT
FieldP == 3

\* number of distinct hasher keys sample_randomness may draw
NumKeys == 2

(* ----------------------- field and bit vectors ------------------------ *)

FieldT == 0..(FieldP - 1)

Keys == 1..NumKeys

RECURSIVE BitsNeeded(_, _)
BitsNeeded(n, b) == IF 2^b >= n THEN b ELSE BitsNeeded(n, b + 1)

\* FieldT::size_in_bits()
size_in_bits == BitsNeeded(FieldP, 1)

\* CRH_with_bit_out_gadget<FieldT>::get_digest_len(): one field element,
\* bit-decomposed
get_digest_len == size_in_bits

\* the gadget's member digest_size
digest_size == get_digest_len

BitPos == 1..digest_size

\* bit_vector of digest length
BitVectors == [BitPos -> {0, 1}]

RECURSIVE SumTo(_, _)
\* sum of f[1] .. f[n]
SumTo(f, n) == IF n = 0 THEN 0 ELSE f[n] + SumTo(f, n - 1)

\* the field element a little-endian sequence of values packs to
pack(vals) == SumTo([k \in 1..Len(vals) |-> (2^(k - 1)) * vals[k]], Len(vals)) % FieldP

\* canonical little-endian bits of a field element
to_bits(x) == [k \in BitPos |-> (x \div (2^(k - 1))) % 2]

\* the knapsack coefficient of input position j under the sampled key
knapsack_coefficient(k, j) == 1 + ((k + ((j * (j + 1)) \div 2)) % (FieldP - 1))

\* the field element the knapsack maps an input block to
knapsack_sum(k, block) ==
    SumTo([j \in 1..Len(block) |-> knapsack_coefficient(k, j) * block[j]], Len(block)) % FieldP

\* CRH_with_bit_out_gadget<FieldT>::get_hash(block)
get_hash(k, block) == to_bits(knapsack_sum(k, block))

FlipBit(bits, k) == [bits EXCEPT ![k] = 1 - bits[k]]

(* ------------------------ circuit variables --------------------------- *)

\* address_bits[k], k = 0 .. tree_depth-1
address_bit(k) == <<"address_bits", k, 0>>

\* a digest_variable: its bits, as the sequence of their variables
digest_variable(name, i) == [k \in BitPos |-> <<name, i, k>>]

leaf_digest_var == digest_variable("leaf", 0)
root_digest_var == digest_variable("root", 0)
internal_left(i) == digest_variable("internal_left", i)
internal_right(i) == digest_variable("internal_right", i)
internal_output(i) == digest_variable("internal_output", i)

Range(s) == {s[k] : k \in DOMAIN s}

\* block_variable(pb, internal_left[i], internal_right[i]): left bits, then right
hasher_inputs(i) == internal_left(i) \o internal_right(i)

\* the output digest hashers[i] is built on
hasher_output(D, i) == IF i = 0 THEN root_digest_var ELSE internal_output(i - 1)

\* the input digest propagators[i] is built on
propagator_input(D, i) == IF i < D - 1 THEN internal_output(i) ELSE leaf_digest_var

\* the is_right variable propagators[i] is built on
propagator_is_right(D, i) == address_bit(D - 1 - i)

\* what the self-test allocates before it constructs the gadget
TestVars(D) ==
    {address_bit(k) : k \in 0..(D - 1)} \cup Range(leaf_digest_var) \cup Range(root_digest_var)

\* what the constructor allocates
GadgetVars(D) ==
    UNION {Range(internal_left(i)) \cup Range(internal_right(i)) : i \in 0..(D - 1)}
    \cup UNION {Range(internal_output(i)) : i \in 0..(D - 2)}

(* ---------------------------- protoboard ------------------------------ *)
\* A protoboard is [val, cs, assigned, uninit, levels]: the value of every
\* allocated variable (zero on allocation), the constraints in the order
\* they were added, and three records of the witness pass: the variables
\* written so far, the variables read before they were written, and the
\* levels the witness loop has visited.

\* protoboard<FieldT> pb
new_protoboard ==
    [val |-> << >>, cs |-> << >>, assigned |-> {}, uninit |-> {}, levels |-> << >>]

\* allocation of the variables vs, each with value zero
allocate(pb, vs) ==
    [pb EXCEPT !.val = [v \in (DOMAIN pb.val) \cup vs |->
                           IF v \in DOMAIN pb.val THEN pb.val[v] ELSE 0]]

\* pb.val(v) = x
set_val(pb, v, x) ==
    [pb EXCEPT !.val = [pb.val EXCEPT ![v] = x], !.assigned = pb.assigned \cup {v}]

\* pb.val(vs[k]) = xs[k] for every k
set_vals(pb, vs, xs) ==
    [pb EXCEPT !.val = [v \in DOMAIN pb.val |->
                           IF \E k \in DOMAIN vs : vs[k] = v
                           THEN xs[CHOOSE k \in DOMAIN vs : vs[k] = v]
                           ELSE pb.val[v]],
               !.assigned = pb.assigned \cup Range(vs)]

\* digest_variable::fill_with_bits
fill_with_bits(pb, dv, bits) == set_vals(pb, dv, bits)

\* the record of a read of the variables vs
note_read(pb, vs) == [pb EXCEPT !.uninit = pb.uninit \cup (vs \ pb.assigned)]

\* get_bits / get_vals: the values of the variables vs, in order
get_vals(pb, vs) == [k \in DOMAIN vs |-> pb.val[vs[k]]]

add_constraints(pb, cons) == [pb EXCEPT !.cs = pb.cs \o cons]

num_constraints(pb) == Len(pb.cs)

\* one rank-1 constraint, evaluated on the values val
constraint_holds(val, c) ==
    CASE c.kind = "bit" ->
           (val[c.v] * (1 + FieldP - val[c.v])) % FieldP = 0
      [] c.kind = "select" ->
           (val[c.is_right] * (val[c.right] + FieldP - val[c.left])) % FieldP
             = (val[c.input] + FieldP - val[c.left]) % FieldP
      [] c.kind = "knapsack" ->
           pack([k \in DOMAIN c.output |-> val[c.output[k]]])
             = knapsack_sum(c.key, [j \in DOMAIN c.input |-> val[c.input[j]]])

\* protoboard::is_satisfied()
is_satisfied(pb) == \A n \in DOMAIN pb.cs : constraint_holds(pb.val, pb.cs[n])

(* ------------------------- digest variable ---------------------------- *)

\* digest_variable::generate_r1cs_constraints(): one booleanity constraint
\* per bit
digest_variable_constraints(dv) == [k \in DOMAIN dv |-> [kind |-> "bit", v |-> dv[k]]]

(* ----------------------------- hasher --------------------------------- *)
\* The hasher's key is process-wide. crh records it (0: not sampled yet)
\* together with the history of its use: the calls of sample_randomness, the
\* calls made after the key was first used, whether it was ever used
\* unsampled, and the key as it was when first used.

crh_initial ==
    [key |-> 0, samples |-> 0, used |-> FALSE, late_samples |-> 0,
     unkeyed_use |-> FALSE, first_key |-> 0]

\* knapsack_CRH_with_bit_out_gadget::sample_randomness(input_len): draws the
\* coefficients that are not cached yet; a repeated call of the same length
\* draws nothing
sample_randomness(crh, seed) ==
    [crh EXCEPT !.key = IF crh.key = 0 THEN seed ELSE crh.key,
                !.samples = crh.samples + 1,
                !.late_samples = IF crh.used THEN crh.late_samples + 1 ELSE crh.late_samples]

\* the record of one use of the key (a hash, a constraint or a witness pass)
use_key(crh) ==
    [crh EXCEPT !.used = TRUE,
                !.unkeyed_use = crh.unkeyed_use \/ crh.key = 0,
                !.first_key = IF crh.used THEN crh.first_key ELSE crh.key]

\* CRH_with_bit_out_gadget::generate_r1cs_constraints(enforce_bitness): the
\* knapsack relation between the input block and the packed output, then the
\* booleanity of the output bits when asked for
hasher_constraints(k, input, output, enforce_bitness) ==
    << [kind |-> "knapsack", key |-> k, input |-> input, output |-> output] >>
    \o (IF enforce_bitness THEN digest_variable_constraints(output) ELSE << >>)

\* CRH_with_bit_out_gadget::expected_constraints(enforce_bitness = true)
CRH_expected_constraints(enforce_bitness) ==
    1 + (IF enforce_bitness THEN get_digest_len ELSE 0)

\* CRH_with_bit_out_gadget::generate_r1cs_witness(input): the output digest
\* receives the hash of the input bits
hasher_witness(pb, k, output, input) == fill_with_bits(pb, output, get_hash(k, input))

(* ------------------------- digest selector ---------------------------- *)

\* digest_selector_gadget::generate_r1cs_constraints(): for every bit,
\* is_right * (right - left) = input - left
selector_constraints(input, is_right, left, right) ==
    [k \in DOMAIN input |->
        [kind |-> "select", is_right |-> is_right, input |-> input[k],
         left |-> left[k], right |-> right[k]]]

\* digest_selector_gadget::generate_r1cs_witness(): copies the input digest
\* into the slot is_right selects
selector_witness(pb, input, is_right, left, right) ==
    LET rd == note_read(pb, {is_right} \cup Range(input))
    IN  IF rd.val[is_right] = 1
        THEN set_vals(rd, right, get_vals(rd, input))
        ELSE set_vals(rd, left, get_vals(rd, input))

(* ------------------------ memory_load_gadget -------------------------- *)

\* the constructor without the call of sample_randomness: a slip one could make
memory_load_gadget_no_sample(crh, pb, D, seed) ==
    [crh |-> crh, pb |-> allocate(pb, GadgetVars(D))]

\* memory_load_gadget::memory_load_gadget: samples the key, allocates the
\* internal digests; the sub-gadgets are the wiring hasher_inputs,
\* hasher_output, propagator_input, propagator_is_right
memory_load_gadget(crh, pb, D, seed) ==
    [crh |-> sample_randomness(crh, seed), pb |-> allocate(pb, GadgetVars(D))]

RECURSIVE ConcatLevels(_, _, _)
\* f(0) \o f(1) \o ... \o f(D-1): a loop for (i = 0; i < D; ++i)
ConcatLevels(f(_), i, D) == IF i >= D THEN << >> ELSE f(i) \o ConcatLevels(f, i + 1, D)

\* generate_r1cs_constraints that also resets the values it constrains
generate_r1cs_constraints_clearing(pb, D, k) ==
    LET aux(i) == digest_variable_constraints(internal_left(i))
                  \o digest_variable_constraints(internal_right(i))
        hash(i) == hasher_constraints(k, hasher_inputs(i), hasher_output(D, i), FALSE)
        prop(i) == selector_constraints(propagator_input(D, i), propagator_is_right(D, i),
                                        internal_left(i), internal_right(i))
        cleared == [pb EXCEPT !.val = [v \in DOMAIN pb.val |->
                                          IF v \in GadgetVars(D) THEN 0 ELSE pb.val[v]]]
    IN  add_constraints(cleared,
            ConcatLevels(aux, 0, D) \o ConcatLevels(hash, 0, D) \o ConcatLevels(prop, 0, D))

\* generate_r1cs_constraints that forgets the hasher of the root level
generate_r1cs_constraints_no_root_hasher(pb, D, k) ==
    LET aux(i) == digest_variable_constraints(internal_left(i))
                  \o digest_variable_constraints(internal_right(i))
        hash(i) == hasher_constraints(k, hasher_inputs(i), hasher_output(D, i), FALSE)
        prop(i) == selector_constraints(propagator_input(D, i), propagator_is_right(D, i),
                                        internal_left(i), internal_right(i))
    IN  add_constraints(pb,
            ConcatLevels(aux, 0, D) \o ConcatLevels(hash, 1, D) \o ConcatLevels(prop, 0, D))

\* generate_r1cs_constraints that forgets the booleanity of the right slots
generate_r1cs_constraints_no_right_bitness(pb, D, k) ==
    LET aux(i) == digest_variable_constraints(internal_left(i))
        hash(i) == hasher_constraints(k, hasher_inputs(i), hasher_output(D, i), FALSE)
        prop(i) == selector_constraints(propagator_input(D, i), propagator_is_right(D, i),
                                        internal_left(i), internal_right(i))
    IN  add_constraints(pb,
            ConcatLevels(aux, 0, D) \o ConcatLevels(hash, 0, D) \o ConcatLevels(prop, 0, D))

\* memory_load_gadget::generate_r1cs_constraints
generate_r1cs_constraints(pb, D, k) ==
    LET aux(i) == digest_variable_constraints(internal_left(i))
                  \o digest_variable_constraints(internal_right(i))
        hash(i) == hasher_constraints(k, hasher_inputs(i), hasher_output(D, i), FALSE)
        prop(i) == selector_constraints(propagator_input(D, i), propagator_is_right(D, i),
                                        internal_left(i), internal_right(i))
    IN  add_constraints(pb,
            ConcatLevels(aux, 0, D) \o ConcatLevels(hash, 0, D) \o ConcatLevels(prop, 0, D))

\* the body of the witness loop with the slots exchanged
witness_level_swapped(pb, D, k, i, path) ==
    LET filled == IF path[i].computed_is_right
                  THEN fill_with_bits(set_val(pb, address_bit(D - 1 - i), 1),
                                      internal_right(i), path[i].aux_digest)
                  ELSE fill_with_bits(set_val(pb, address_bit(D - 1 - i), 0),
                                      internal_left(i), path[i].aux_digest)
        propagated == selector_witness(filled, propagator_input(D, i),
                                       propagator_is_right(D, i),
                                       internal_left(i), internal_right(i))
        rd == note_read(propagated, Range(hasher_inputs(i)))
        hashed == hasher_witness(rd, k, hasher_output(D, i), get_vals(rd, hasher_inputs(i)))
    IN  [hashed EXCEPT !.levels = Append(hashed.levels, i)]

\* the body of the witness loop writing address_bits[i]
witness_level_unreversed(pb, D, k, i, path) ==
    LET filled == IF path[i].computed_is_right
                  THEN fill_with_bits(set_val(pb, address_bit(i), 1),
                                      internal_left(i), path[i].aux_digest)
                  ELSE fill_with_bits(set_val(pb, address_bit(i), 0),
                                      internal_right(i), path[i].aux_digest)
        propagated == selector_witness(filled, propagator_input(D, i),
                                       propagator_is_right(D, i),
                                       internal_left(i), internal_right(i))
        rd == note_read(propagated, Range(hasher_inputs(i)))
        hashed == hasher_witness(rd, k, hasher_output(D, i), get_vals(rd, hasher_inputs(i)))
    IN  [hashed EXCEPT !.levels = Append(hashed.levels, i)]

\* the body of the loop of generate_r1cs_witness, for level i: the address
\* bit and the non-path slot, then the propagator, then the hasher
witness_level(pb, D, k, i, path) ==
    LET filled == IF path[i].computed_is_right
                  THEN fill_with_bits(set_val(pb, address_bit(D - 1 - i), 1),
                                      internal_left(i), path[i].aux_digest)
                  ELSE fill_with_bits(set_val(pb, address_bit(D - 1 - i), 0),
                                      internal_right(i), path[i].aux_digest)
        propagated == selector_witness(filled, propagator_input(D, i),
                                       propagator_is_right(D, i),
                                       internal_left(i), internal_right(i))
        rd == note_read(propagated, Range(hasher_inputs(i)))
        hashed == hasher_witness(rd, k, hasher_output(D, i), get_vals(rd, hasher_inputs(i)))
    IN  [hashed EXCEPT !.levels = Append(hashed.levels, i)]

RECURSIVE witness_loop_ascending(_, _, _, _, _)
\* the witness loop run from the root level down to the leaf level
witness_loop_ascending(pb, D, k, i, path) ==
    IF i < 0 THEN pb
    ELSE witness_loop_ascending(witness_level(pb, D, k, D - 1 - i, path), D, k, i - 1, path)

RECURSIVE witness_loop(_, _, _, _, _)
\* for (int i = tree_depth-1; i >= 0; --i), entered with i
witness_loop(pb, D, k, i, path) ==
    IF i < 0 THEN pb
    ELSE witness_loop(witness_level(pb, D, k, i, path), D, k, i - 1, path)

\* generate_r1cs_witness whose loop starts one level above the leaf level
generate_r1cs_witness_skipping_leaf_level(pb, D, k, leaf_digest, root_digest, path) ==
    witness_loop(fill_with_bits(pb, leaf_digest_var, leaf_digest), D, k, D - 2, path)

\* generate_r1cs_witness that also fills in the root it is given
generate_r1cs_witness_filling_root(pb, D, k, leaf_digest, root_digest, path) ==
    fill_with_bits(
        witness_loop(fill_with_bits(pb, leaf_digest_var, leaf_digest), D, k, D - 1, path),
        root_digest_var, root_digest)

\* memory_load_gadget::generate_r1cs_witness
generate_r1cs_witness(pb, D, k, leaf_digest, root_digest, path) ==
    witness_loop(fill_with_bits(pb, leaf_digest_var, leaf_digest), D, k, D - 1, path)

\* expected_constraints counting the booleanity of both slots
expected_constraints_both_slots(D) ==
    LET hasher_constraints_n == D * CRH_expected_constraints(TRUE)
        propagator_constraints_n == D * get_digest_len
        aux_digest_constraints_n == 2 * D * get_digest_len
    IN  hasher_constraints_n + propagator_constraints_n + aux_digest_constraints_n

\* memory_load_gadget::expected_constraints
expected_constraints(D) ==
    LET hasher_constraints_n == D * CRH_expected_constraints(TRUE)
        propagator_constraints_n == D * get_digest_len
        aux_digest_constraints_n == D * get_digest_len
    IN  hasher_constraints_n + propagator_constraints_n + aux_digest_constraints_n

(* ------------------------------ state --------------------------------- *)

VARIABLES
    pc,               \* where the caller (test_memory_load_gadget) stands
    tree_depth,       \* the depth of the tree
    crh,              \* the hasher's process-wide key and the history of its use
    pb,               \* the protoboard
    leaf,             \* the self-test's leaf
    prev_hash,        \* the self-test's prev_hash
    level,            \* the self-test's loop variable
    path,             \* the self-test's authentication path
    address_bits,     \* the self-test's address_bits, a bit_vector
    root,             \* the self-test's root
    arg_leaf,         \* the leaf handed to the gadget
    arg_root,         \* the root handed to the gadget
    arg_path,         \* the path handed to the gadget
    tamper,           \* which bit of the honest input was flipped, if any
    first_pass,       \* the pass that ran first: "none", "constraints", "witness"
    constraints_done, \* generate_r1cs_constraints has run
    witness_done,     \* generate_r1cs_witness has run
    satisfied,        \* what pb.is_satisfied() returned
    next_var          \* the number of variables the prover has assigned

vars == <<pc, tree_depth, crh, pb, leaf, prev_hash, level, path, address_bits, root,
          arg_leaf, arg_root, arg_path, tamper, first_pass, constraints_done,
          witness_done, satisfied, next_var>>

test_vars == <<leaf, prev_hash, level, path, address_bits, root>>
arg_vars == <<arg_leaf, arg_root, arg_path, tamper>>
pass_vars == <<first_pass, constraints_done, witness_done>>

\* std::vector<merkle_authentication_node> path(tree_depth)
empty_path(D) == [i \in 0..(D - 1) |-> [computed_is_right |-> FALSE, aux_digest |-> << >>]]

no_tamper == [kind |-> "none", level |-> 0, bit |-> 0]

Init ==
    /\ pc = "sample"
    /\ tree_depth \in 1..MaxDepth
    /\ crh = crh_initial
    /\ pb = new_protoboard
    /\ leaf = << >>
    /\ prev_hash = << >>
    /\ level = 0
    /\ path = empty_path(tree_depth)
    /\ address_bits = << >>
    /\ root = << >>
    /\ arg_leaf = << >>
    /\ arg_root = << >>
    /\ arg_path = empty_path(tree_depth)
    /\ tamper = no_tamper
    /\ first_pass = "none"
    /\ constraints_done = FALSE
    /\ witness_done = FALSE
    /\ satisfied = "unknown"
    /\ next_var = 0

(* ------------------- test_memory_load_gadget -------------------------- *)

\* sample_randomness(2*digest_len)
TestSample ==
    /\ pc = "sample"
    /\ \E seed \in Keys : crh' = sample_randomness(crh, seed)
    /\ pc' = "leaf"
    /\ UNCHANGED <<tree_depth, pb, test_vars, arg_vars, pass_vars, satisfied, next_var>>

\* the random leaf
TestPickLeaf ==
    /\ pc = "leaf"
    /\ \E bits \in BitVectors :
          /\ prev_hash' = bits
          /\ leaf' = bits
    /\ address_bits' = << >>
    /\ level' = tree_depth - 1
    /\ pc' = "path"
    /\ UNCHANGED <<tree_depth, crh, pb, path, root, arg_vars, pass_vars, satisfied, next_var>>

\* the block the self-test hashes at one level
test_block(computed_is_right, prev, other) ==
    IF computed_is_right THEN other \o prev ELSE prev \o other

\* one iteration of for (level = tree_depth-1; level >= 0; --level)
TestBuildLevel ==
    /\ pc = "path"
    /\ level >= 0
    /\ \E computed_is_right \in BOOLEAN, other \in BitVectors :
          /\ address_bits' = Append(address_bits, IF computed_is_right THEN 1 ELSE 0)
          /\ path' = [path EXCEPT ![level] =
                         [computed_is_right |-> computed_is_right, aux_digest |-> other]]
          /\ prev_hash' = get_hash(crh.key, test_block(computed_is_right, prev_hash, other))
    /\ crh' = use_key(crh)
    /\ level' = level - 1
    /\ UNCHANGED <<pc, tree_depth, pb, leaf, root, arg_vars, pass_vars, satisfied, next_var>>

\* root = prev_hash; the protoboard, address_bits_va, leaf_digest, root_digest
TestAllocate ==
    /\ pc = "path"
    /\ level < 0
    /\ root' = prev_hash
    /\ pb' = allocate(new_protoboard, TestVars(tree_depth))
    /\ arg_leaf' = leaf
    /\ arg_root' = prev_hash
    /\ arg_path' = path
    /\ pc' = "construct"
    /\ UNCHANGED <<tree_depth, crh, leaf, prev_hash, level, path, address_bits, tamper,
                   pass_vars, satisfied, next_var>>

\* memory_load_gadget<FieldT> ml(pb, tree_depth, ...)
Construct ==
    /\ pc = "construct"
    /\ \E seed \in Keys :
          LET ml == memory_load_gadget(crh, pb, tree_depth, seed)
          IN  /\ crh' = ml.crh
              /\ pb' = ml.pb
    /\ pc' = "built"
    /\ UNCHANGED <<tree_depth, test_vars, arg_vars, pass_vars, satisfied, next_var>>

\* ml.generate_r1cs_constraints()
GenerateConstraints ==
    /\ pc = "built"
    /\ ~constraints_done
    /\ pb' = generate_r1cs_constraints(pb, tree_depth, crh.key)
    /\ crh' = use_key(crh)
    /\ constraints_done' = TRUE
    /\ first_pass' = IF first_pass = "none" THEN "constraints" ELSE first_pass
    /\ UNCHANGED <<pc, tree_depth, test_vars, arg_vars, witness_done, satisfied, next_var>>

\* ml.generate_r1cs_witness(leaf, root, path)
GenerateWitness ==
    /\ pc = "built"
    /\ ~witness_done
    /\ pb' = generate_r1cs_witness(pb, tree_depth, crh.key, arg_leaf, arg_root, arg_path)
    /\ crh' = use_key(crh)
    /\ witness_done' = TRUE
    /\ first_pass' = IF first_pass = "none" THEN "witness" ELSE first_pass
    /\ UNCHANGED <<pc, tree_depth, test_vars, arg_vars, constraints_done, satisfied, next_var>>

\* address_bits_va.fill_with_bits(pb, address_bits)
fill_address_bits(b, D, bits) ==
    [b EXCEPT !.val = [v \in DOMAIN b.val |->
                          IF \E k \in 0..(D - 1) : v = address_bit(k)
                          THEN bits[v[2] + 1] ELSE b.val[v]],
              !.assigned = b.assigned \cup {address_bit(k) : k \in 0..(D - 1)}]

\* the three fill_with_bits calls of the self-test
CallerFill ==
    /\ pc = "built"
    /\ constraints_done
    /\ witness_done
    /\ pb' = fill_with_bits(
                 fill_with_bits(fill_address_bits(pb, tree_depth, address_bits),
                                leaf_digest_var, arg_leaf),
                 root_digest_var, arg_root)
    /\ pc' = "filled"
    /\ UNCHANGED <<tree_depth, crh, test_vars, arg_vars, pass_vars, satisfied, next_var>>

\* assert(pb.is_satisfied()) and the comparison of the constraint counts
Check ==
    /\ pc = "filled"
    /\ satisfied' = is_satisfied(pb)
    /\ pc' = IF is_satisfied(pb) /\ num_constraints(pb) = expected_constraints(tree_depth)
             THEN "done" ELSE "assert_failed"
    /\ UNCHANGED <<tree_depth, crh, pb, test_vars, arg_vars, pass_vars, next_var>>

Next ==
    \/ TestSample
    \/ TestPickLeaf
    \/ TestBuildLevel
    \/ TestAllocate
    \/ Construct
    \/ GenerateConstraints
    \/ GenerateWitness
    \/ CallerFill
    \/ Check

Spec == Init /\ [][Next]_vars

(* ------------------------- a tampered input --------------------------- *)

\* One bit of the honest leaf, of one sibling of the path or of the root is
\* flipped before it is handed to generate_r1cs_witness, the constraints
\* being generated as in the self-test; everything else is kept.
Tamper ==
    /\ pc = "built"
    /\ constraints_done
    /\ ~witness_done
    /\ tamper = no_tamper
    /\ \/ \E k \in BitPos :
             /\ tamper' = [kind |-> "leaf", level |-> tree_depth - 1, bit |-> k]
             /\ arg_leaf' = FlipBit(arg_leaf, k)
             /\ UNCHANGED <<arg_root, arg_path>>
       \/ \E i \in 0..(tree_depth - 1), k \in BitPos :
             /\ tamper' = [kind |-> "sibling", level |-> i, bit |-> k]
             /\ arg_path' = [arg_path EXCEPT ![i].aux_digest = FlipBit(arg_path[i].aux_digest, k)]
             /\ UNCHANGED <<arg_leaf, arg_root>>
       \/ \E k \in BitPos :
             /\ tamper' = [kind |-> "root", level |-> 0, bit |-> k]
             /\ arg_root' = FlipBit(arg_root, k)
             /\ UNCHANGED <<arg_leaf, arg_path>>
    /\ UNCHANGED <<pc, tree_depth, crh, pb, test_vars, pass_vars, satisfied, next_var>>

NextTamper == Next \/ Tamper

SpecTamper == Init /\ [][NextTamper]_vars

(* ------------------------ an arbitrary prover ------------------------- *)
\* The prover assigns the variables of a constructed and constrained gadget
\* one after the other, each with any field element. An assignment that
\* already violates a constraint all of whose variables are assigned is not
\* extended: none of its extensions satisfies the system. A constraint is
\* evaluated when the last of its variables is assigned. The complete
\* assignments reached are exactly the satisfying ones.

\* the variables of one constraint
constraint_vars(c) ==
    CASE c.kind = "bit" -> {c.v}
      [] c.kind = "select" -> {c.is_right, c.input, c.left, c.right}
      [] c.kind = "knapsack" -> Range(c.input) \cup Range(c.output)

\* the order the prover assigns in: level by level from the root level, the
\* slots, the direction bit, the claimed digest; the root last
ProverOrder(D) ==
    LET lvl(i) == internal_left(i) \o internal_right(i)
                  \o << propagator_is_right(D, i) >> \o propagator_input(D, i)
    IN  ConcatLevels(lvl, 0, D) \o root_digest_var

InitProver ==
    /\ pc = "prover"
    /\ tree_depth \in 1..MaxDepth
    /\ \E seed \in Keys :
          LET ml == memory_load_gadget(crh_initial,
                                       allocate(new_protoboard, TestVars(tree_depth)),
                                       tree_depth, seed)
          IN  /\ crh = use_key(ml.crh)
              /\ pb = generate_r1cs_constraints(ml.pb, tree_depth, seed)
    /\ leaf = << >>
    /\ prev_hash = << >>
    /\ level = 0
    /\ path = empty_path(tree_depth)
    /\ address_bits = << >>
    /\ root = << >>
    /\ arg_leaf = << >>
    /\ arg_root = << >>
    /\ arg_path = empty_path(tree_depth)
    /\ tamper = no_tamper
    /\ first_pass = "constraints"
    /\ constraints_done = TRUE
    /\ witness_done = FALSE
    /\ satisfied = "unknown"
    /\ next_var = 0

\* pb.val(v) = x for the next variable v and any field element x
ProverAssign ==
    /\ pc = "prover"
    /\ next_var < Cardinality(DOMAIN pb.val)
    /\ \E x \in FieldT : pb' = set_val(pb, ProverOrder(tree_depth)[next_var + 1], x)
    /\ \A n \in DOMAIN pb'.cs :
           (/\ ~(constraint_vars(pb'.cs[n]) \subseteq pb.assigned)
            /\ constraint_vars(pb'.cs[n]) \subseteq pb'.assigned)
              => constraint_holds(pb'.val, pb'.cs[n])
    /\ next_var' = next_var + 1
    /\ UNCHANGED <<pc, tree_depth, crh, test_vars, arg_vars, pass_vars, satisfied>>

NextProver == ProverAssign

SpecProver == InitProver /\ [][NextProver]_vars

(* ----------------------------- claims --------------------------------- *)

\* the protoboard as the constructor leaves it
constructed_pb == memory_load_gadget(crh_initial, allocate(new_protoboard, TestVars(tree_depth)),
                                     tree_depth, 1).pb

\* the levels tree_depth-1, ..., 0 in this order
LeafToRoot == [n \in 1..tree_depth |-> tree_depth - n]

\* the values of a digest's bits
digest_val(dv) == get_vals(pb, dv)

Completeness ==
    /\ pc = "filled" => is_satisfied(pb)
    /\ pc \in {"done", "assert_failed"} => satisfied = TRUE

CompletenessWitness ==
    /\ pc = "done"
    /\ satisfied = TRUE
    /\ tree_depth = MaxDepth
    /\ \E i \in 0..(tree_depth - 1) : path[i].computed_is_right
    /\ \E i \in 0..(tree_depth - 1) : ~path[i].computed_is_right

\* C4 as claimed: in a tree of depth 1, the flag set makes the hasher's block
\* leaf || sibling, the flag clear makes it sibling || leaf, and the root is
\* the hash of that block.
DirectionAsClaimed ==
    (tree_depth = 1 /\ witness_done) =>
        LET L == arg_leaf
            S == arg_path[0].aux_digest
            block == IF arg_path[0].computed_is_right THEN L \o S ELSE S \o L
        IN  /\ digest_val(hasher_inputs(0)) = block
            /\ digest_val(root_digest_var) = get_hash(crh.key, block)

\* C4 as amended: in a tree of depth 1, the flag set makes the hasher's block
\* sibling || leaf, the flag clear makes it leaf || sibling, and the root is
\* the hash of that block.
DirectionSemantics ==
    (tree_depth = 1 /\ witness_done) =>
        LET L == arg_leaf
            S == arg_path[0].aux_digest
            block == IF arg_path[0].computed_is_right THEN S \o L ELSE L \o S
        IN  /\ digest_val(hasher_inputs(0)) = block
            /\ digest_val(root_digest_var) = get_hash(crh.key, block)

DirectionWitness ==
    /\ tree_depth = 1
    /\ witness_done
    /\ arg_path[0].computed_is_right
    /\ arg_leaf # arg_path[0].aux_digest
    /\ get_hash(crh.key, arg_leaf \o arg_path[0].aux_digest)
         # get_hash(crh.key, arg_path[0].aux_digest \o arg_leaf)
    /\ digest_val(root_digest_var) = get_hash(crh.key, arg_path[0].aux_digest \o arg_leaf)

\* C5 as claimed: the key is sampled exactly once, before its first use, and
\* never after it.
KeySampledOnce ==
    /\ ~crh.unkeyed_use
    /\ crh.used => crh.samples = 1
    /\ crh.late_samples = 0

\* C5 as amended: the key is sampled before its first use and keeps its value
\* from then on; sample_randomness is called once by the self-test before any
\* hash and once more by the constructor of the gadget, after the key was
\* used for the hashes of the path.
KeyDiscipline ==
    /\ ~crh.unkeyed_use
    /\ crh.used => (crh.key # 0 /\ crh.key = crh.first_key)
    /\ pc \in {"leaf", "path", "construct"} => (crh.samples = 1 /\ crh.late_samples = 0)
    /\ pc \in {"built", "filled", "done", "assert_failed"} =>
           (crh.samples = 2 /\ crh.late_samples = 1)

KeyDisciplineWitness ==
    /\ pc = "done"
    /\ crh.samples = 2
    /\ crh.late_samples = 1
    /\ crh.key = crh.first_key
    /\ crh.key # 0

\* the constraints generate_r1cs_constraints alone adds to the constructed gadget
constraints_alone == generate_r1cs_constraints(constructed_pb, tree_depth, crh.key).cs

\* the values generate_r1cs_witness alone leaves in the constructed gadget
witness_alone ==
    generate_r1cs_witness(constructed_pb, tree_depth, crh.key, arg_leaf, arg_root, arg_path).val

\* C6: generate_r1cs_constraints changes the constraints and no value,
\* generate_r1cs_witness changes values and neither the constraints nor the
\* allocated variables; so between construction and the caller's own
\* assignments the constraints are those of the constraint pass alone and the
\* values those of the witness pass alone, whichever pass ran first.
DisjointPasses ==
    pc = "built" =>
        /\ DOMAIN pb.val = DOMAIN constructed_pb.val
        /\ pb.cs = IF constraints_done THEN constraints_alone ELSE << >>
        /\ pb.val = IF witness_done THEN witness_alone ELSE constructed_pb.val
        /\ ~witness_done => pb.assigned = {}

DisjointPassesWitness ==
    /\ pc = "built"
    /\ first_pass = "witness"
    /\ constraints_done
    /\ tree_depth = MaxDepth
    /\ \E v \in DOMAIN pb.val : pb.val[v] # 0
    /\ pb.cs # << >>

\* C7: after generate_r1cs_witness every address bit is assigned 0 or 1,
\* address_bits[k] is 1 exactly when path[tree_depth-1-k] has its flag set,
\* and the bits are those the self-test collected leaf first.
AddressBitsReversed ==
    witness_done =>
        \A k \in 0..(tree_depth - 1) :
            /\ address_bit(k) \in pb.assigned
            /\ pb.val[address_bit(k)] \in {0, 1}
            /\ (pb.val[address_bit(k)] = 1) <=> arg_path[tree_depth - 1 - k].computed_is_right
            /\ pb.val[address_bit(k)] = address_bits[k + 1]

AddressBitsWitness ==
    /\ witness_done
    /\ pc = "built"
    /\ tree_depth = MaxDepth
    /\ pb.val[address_bit(0)] = 1
    /\ pb.val[address_bit(tree_depth - 1)] = 0
    /\ arg_path[tree_depth - 1].computed_is_right

\* C9: generate_r1cs_witness visits the levels tree_depth-1, ..., 0 in this
\* order and reads no variable (direction bit, claimed digest, hasher block)
\* before it was assigned.
WitnessOrder ==
    witness_done => (pb.levels = LeafToRoot /\ pb.uninit = {})

WitnessOrderWitness ==
    /\ witness_done
    /\ tree_depth = MaxDepth
    /\ pb.levels = LeafToRoot
    /\ \A i \in 0..(tree_depth - 1) : Range(hasher_inputs(i)) \subseteq pb.assigned
    /\ \A i \in 0..(tree_depth - 2) : Range(internal_output(i)) \subseteq pb.assigned

\* C10: the values generate_r1cs_witness leaves do not depend on the root it
\* is given: any other root gives the same value to every variable.
RootArgumentIgnored ==
    (pc = "built" /\ witness_done) =>
        \A r \in BitVectors :
            generate_r1cs_witness(constructed_pb, tree_depth, crh.key,
                                  arg_leaf, r, arg_path).val = pb.val

RootArgumentWitness ==
    /\ pc = "built"
    /\ witness_done
    /\ tree_depth = MaxDepth
    /\ \E r \in BitVectors :
          /\ r # arg_root
          /\ generate_r1cs_witness(constructed_pb, tree_depth, crh.key,
                                   arg_leaf, r, arg_path).val = pb.val
    /\ digest_val(root_digest_var) = arg_root

RECURSIVE chain_blocks(_, _, _, _)
\* the blocks hashed from level i up to the root when the digest claimed at
\* level i is claimed: the block of level i first
chain_blocks(k, claimed, p, i) ==
    IF i < 0 THEN << >>
    ELSE LET block == test_block(p[i].computed_is_right, claimed, p[i].aux_digest)
         IN  << block >> \o chain_blocks(k, get_hash(k, block), p, i - 1)

\* the hash collides on no pair of blocks the honest and the supplied input
\* lead to at the same level
collision_free ==
    LET honest == chain_blocks(crh.key, leaf, path, tree_depth - 1)
        supplied == chain_blocks(crh.key, arg_leaf, arg_path, tree_depth - 1)
    IN  \A n \in 1..tree_depth :
            honest[n] # supplied[n] => get_hash(crh.key, honest[n]) # get_hash(crh.key, supplied[n])

\* C3: with one bit of the leaf, of one sibling or of the root flipped, and
\* the hash colliding nowhere on the way, the satisfaction check after both
\* passes and the caller's assignments returns false.
Soundness ==
    (pc \in {"done", "assert_failed"} /\ tamper.kind # "none" /\ collision_free)
        => satisfied = FALSE

SoundnessWitness ==
    /\ pc = "assert_failed"
    /\ tree_depth = MaxDepth
    /\ tamper.kind = "sibling"
    /\ tamper.level = tree_depth - 1
    /\ collision_free
    /\ satisfied = FALSE

\* the prover has assigned every variable
prover_done == pc = "prover" /\ next_var = Cardinality(DOMAIN pb.val)

internal_outputs_boolean ==
    \A i \in 0..(tree_depth - 2) : \A k \in BitPos : pb.val[internal_output(i)[k]] \in {0, 1}

address_bits_boolean ==
    \A k \in 0..(tree_depth - 1) : pb.val[address_bit(k)] \in {0, 1}

\* C8 as claimed: in every assignment that satisfies the constraints of
\* generate_r1cs_constraints every bit of every internal output digest is 0
\* or 1.
InternalOutputsBoolean ==
    (prover_done /\ is_satisfied(pb)) => internal_outputs_boolean

\* C8 as amended: in every assignment that satisfies the constraints of
\* generate_r1cs_constraints and gives every address bit the value 0 or 1,
\* every bit of every internal output digest is 0 or 1.
InternalOutputsBooleanGivenAddress ==
    (prover_done /\ is_satisfied(pb) /\ address_bits_boolean) => internal_outputs_boolean

InternalOutputsWitness ==
    /\ prover_done
    /\ is_satisfied(pb)
    /\ address_bits_boolean
    /\ tree_depth = MaxDepth
    /\ pb.val[address_bit(tree_depth - 1)] = 1
    /\ \E k \in BitPos : pb.val[internal_output(0)[k]] = 1
    /\ \E k \in BitPos : pb.val[internal_left(0)[k]] # pb.val[internal_right(0)[k]]

====
